---- MODULE Spec2Model ----
(***************************************************************************)
(* FoundationShims.h: layout-compatible clones of Foundation structs, the  *)
(* known-NSError-key enumeration and three extern entry points.            *)
(*                                                                         *)
(* The header is modelled as the translation unit a compiler sees: the     *)
(* preprocessor walks its directives under a configuration (word size,     *)
(* __OBJC2__, __cplusplus, a predefined SWIFT_ENUM), each declaration that *)
(* survives is recorded, structs are laid out by the C rules and the       *)
(* enumerators are numbered by the C rules.  Once the header is compiled,  *)
(* threads call the declared entry points.                                 *)
(***************************************************************************)
EXTENDS Integers, Sequences, FiniteSets, TLC

VARIABLES
  wordSize,    \* sizeof(__swift_intptr_t) = sizeof(long) = sizeof(void *) of the target
  macros,      \* the macros defined so far
  pc,          \* index into Header of the next line to process
  condStack,   \* open #if blocks, innermost last: [macro, active, line]
  decls,       \* declarations made so far: [name, kind, line, guards, ns]
  inNamespace, \* inside namespace swift { extern "C" {
  layouts,     \* struct layouts computed so far
  enumTable,   \* enumerators of _SwiftKnownNSErrorKey with their values
  platform,    \* the operating system's version, in the platform's own struct
  ncalls,      \* calls made to the entry points so far
  lastCall     \* per thread: the last call it made and what came of it

vars == <<wordSize, macros, pc, condStack, decls, inNamespace, layouts,
          enumTable, platform, ncalls, lastCall>>

NULL == "NULL"
VOID == "void"

(* ------------------------------ bounds --------------------------------- *)

\* Calls to the entry points made in one run.
MaxCalls == 2

Threads == {"t1", "t2"}

\* Native word sizes in bytes (ILP32 and LP64 targets).
WordSizes == {4, 8}

\* Macros a translation unit may have defined before it includes the header.
ConfigMacros == {"__OBJC2__", "__cplusplus", "SWIFT_ENUM"}

\* Operating-system versions the process may be running on, as the platform's
\* own version struct holds them.
PlatformVersions ==
  {[majorVersion |-> 10, minorVersion |-> 11, patchVersion |-> 4],
   [majorVersion |-> 10, minorVersion |-> 12, patchVersion |-> 0]}

\* Raw values a caller may pass for the key (6 is no enumerator).
KeyInputs == 0..6

Objects == {NULL, "obj"}
Selectors == {NULL, "sel"}
Contexts == {NULL, "ctx"}

(* ----------------------- the header's declarations --------------------- *)

F(n, t, c) == [name |-> n, type |-> t, count |-> c]

\* Mutant: location declared as a 32-bit integer.
RangeFields_Narrow ==
  << F("location", "__swift_int32_t", 1),
     F("length", "__swift_intptr_t", 1) >>

RangeFields ==
  << F("location", "__swift_intptr_t", 1),
     F("length", "__swift_intptr_t", 1) >>

\* Mutant: a reserved block of four words.
FastEnumerationStateFields_ShortExtra ==
  << F("state", "unsigned long", 1),
     F("itemsPtr", "pointer", 1),
     F("mutationsPtr", "pointer", 1),
     F("extra", "unsigned long", 4) >>

FastEnumerationStateFields ==
  << F("state", "unsigned long", 1),
     F("itemsPtr", "pointer", 1),
     F("mutationsPtr", "pointer", 1),
     F("extra", "unsigned long", 5) >>

\* Mutant: patchVersion declared as a 32-bit integer.
OperatingSystemVersionFields_NarrowPatch ==
  << F("majorVersion", "__swift_intptr_t", 1),
     F("minorVersion", "__swift_intptr_t", 1),
     F("patchVersion", "__swift_int32_t", 1) >>

\* Mutant: minorVersion declared before majorVersion.
OperatingSystemVersionFields_Swapped ==
  << F("minorVersion", "__swift_intptr_t", 1),
     F("majorVersion", "__swift_intptr_t", 1),
     F("patchVersion", "__swift_intptr_t", 1) >>

OperatingSystemVersionFields ==
  << F("majorVersion", "__swift_intptr_t", 1),
     F("minorVersion", "__swift_intptr_t", 1),
     F("patchVersion", "__swift_intptr_t", 1) >>

StructFields(name) ==
  CASE name = "_SwiftNSRange" -> RangeFields
    [] name = "_SwiftNSFastEnumerationState" -> FastEnumerationStateFields
    [] name = "_SwiftNSOperatingSystemVersion" -> OperatingSystemVersionFields

E(n, h, v) == [name |-> n, hasInit |-> h, init |-> v]

\* Mutant: HelpAnchor and LocalizedRecoveryOptions change places.
KnownNSErrorKeyEnumerators_Reordered ==
  << E("_SwiftKnownNSErrorKeyLocalizedDescription", TRUE, 0),
     E("_SwiftKnownNSErrorKeyLocalizedFailureReason", FALSE, 0),
     E("_SwiftKnownNSErrorKeyLocalizedRecoverySuggestion", FALSE, 0),
     E("_SwiftKnownNSErrorKeyLocalizedRecoveryOptions", FALSE, 0),
     E("_SwiftKnownNSErrorKeyHelpAnchor", FALSE, 0),
     E("_SwiftKnownNSErrorKeyRecoveryAttempter", FALSE, 0) >>

KnownNSErrorKeyEnumerators ==
  << E("_SwiftKnownNSErrorKeyLocalizedDescription", TRUE, 0),
     E("_SwiftKnownNSErrorKeyLocalizedFailureReason", FALSE, 0),
     E("_SwiftKnownNSErrorKeyLocalizedRecoverySuggestion", FALSE, 0),
     E("_SwiftKnownNSErrorKeyHelpAnchor", FALSE, 0),
     E("_SwiftKnownNSErrorKeyLocalizedRecoveryOptions", FALSE, 0),
     E("_SwiftKnownNSErrorKeyRecoveryAttempter", FALSE, 0) >>

P(n, t, q) == [name |-> n, type |-> t, nullability |-> q]

OperatingSystemVersionProto ==
  [ret |-> P("", "_SwiftNSOperatingSystemVersion", "value"), params |-> <<>>]

NSErrorKeyProto ==
  [ret |-> P("", "id", "_Nonnull"),
   params |-> << P("key", "_SwiftKnownNSErrorKey", "value") >>]

\* Mutant: the delegate declared _Nonnull.
PerformErrorRecoverySelectorProto_NonnullDelegate ==
  [ret |-> P("", VOID, "value"),
   params |-> << P("delegate", "id", "_Nonnull"),
                 P("selector", "void *", "_Nonnull"),
                 P("success", "_SwiftCBool", "value"),
                 P("contextInfo", "void *", "_Nullable") >>]

PerformErrorRecoverySelectorProto ==
  [ret |-> P("", VOID, "value"),
   params |-> << P("delegate", "id", "_Nullable"),
                 P("selector", "void *", "_Nonnull"),
                 P("success", "_SwiftCBool", "value"),
                 P("contextInfo", "void *", "_Nullable") >>]

Proto(name) ==
  CASE name = "_swift_stdlib_operatingSystemVersion" -> OperatingSystemVersionProto
    [] name = "_swift_stdlib_nserror_key" -> NSErrorKeyProto
    [] name = "_swift_stdlib_perform_error_recovery_selector" ->
         PerformErrorRecoverySelectorProto

L(k, n, first) == [kind |-> k, name |-> n, line |-> first]

\* The header, one entry per directive or declaration, in file order.
HeaderPrologue ==
  << L("ifndef", "SWIFT_STDLIB_SHIMS_FOUNDATIONSHIMS_H", 19),
     L("define", "SWIFT_STDLIB_SHIMS_FOUNDATIONSHIMS_H", 20),
     L("include", "SwiftStdint.h", 30),
     L("ifdef", "__cplusplus", 32),
     L("namespace_open", "swift", 33),
     L("endif", "", 34) >>

\* Mutant: the #endif of the __OBJC2__ block placed after the next struct.
HeaderStructs_LateEndif ==
  << L("struct", "_SwiftNSRange", 36),
     L("ifdef", "__OBJC2__", 41),
     L("struct", "_SwiftNSFastEnumerationState", 42),
     L("struct", "_SwiftNSOperatingSystemVersion", 51),
     L("endif", "", 48),
     L("proto", "_swift_stdlib_operatingSystemVersion", 57) >>

HeaderStructs ==
  << L("struct", "_SwiftNSRange", 36),
     L("ifdef", "__OBJC2__", 41),
     L("struct", "_SwiftNSFastEnumerationState", 42),
     L("endif", "", 48),
     L("struct", "_SwiftNSOperatingSystemVersion", 51),
     L("proto", "_swift_stdlib_operatingSystemVersion", 57) >>

HeaderErrorKeys ==
  << L("ifndef", "SWIFT_ENUM", 60),
     L("define", "SWIFT_ENUM", 61),
     L("endif", "", 62),
     L("enum", "_SwiftKnownNSErrorKey", 64),
     L("proto", "_swift_stdlib_nserror_key", 73) >>

\* Mutant: the recovery-selector prototype left out.
HeaderErrorRecovery_NoPrototype ==
  << L("typedef", "_SwiftObjCBool", 79),
     L("ifdef", "__cplusplus", 81),
     L("typedef", "_SwiftCBool", 82),
     L("else", "", 83),
     L("typedef", "_SwiftCBool", 84),
     L("endif", "", 85) >>

HeaderErrorRecovery ==
  << L("typedef", "_SwiftObjCBool", 79),
     L("ifdef", "__cplusplus", 81),
     L("typedef", "_SwiftCBool", 82),
     L("else", "", 83),
     L("typedef", "_SwiftCBool", 84),
     L("endif", "", 85),
     L("proto", "_swift_stdlib_perform_error_recovery_selector", 87) >>

HeaderEpilogue ==
  << L("ifdef", "__cplusplus", 94),
     L("namespace_close", "swift", 95),
     L("endif", "", 96),
     L("endif", "", 98) >>

Header ==
  HeaderPrologue \o HeaderStructs \o HeaderErrorKeys \o HeaderErrorRecovery
    \o HeaderEpilogue

EOF == Len(Header) + 1

(* --------------------------- C layout rules ---------------------------- *)

\* sizeof of a scalar type on a target whose native word is w bytes.
SizeOf(type, w) ==
  CASE type \in {"__swift_intptr_t", "unsigned long", "pointer",
                 "NSUInteger", "NSInteger"} -> w
    [] type \in {"__swift_int32_t", "int"} -> 4
    [] type \in {"__swift_int8_t", "signed char", "bool", "_Bool"} -> 1

\* Scalars are naturally aligned; an array is aligned as its element.
AlignOf(type, w) == SizeOf(type, w)

AlignUp(x, a) == ((x + a - 1) \div a) * a

FieldSize(f, w) == f.count * SizeOf(f.type, w)

RECURSIVE Offsets(_, _, _, _)
\* Offsets of fields i.. of a struct when the first free byte is `off`.
Offsets(fields, i, off, w) ==
  IF i > Len(fields) THEN <<>>
  ELSE LET at == AlignUp(off, AlignOf(fields[i].type, w))
       IN  <<at>> \o Offsets(fields, i + 1, at + FieldSize(fields[i], w), w)

RECURSIVE MaxAlign(_, _, _)
MaxAlign(fields, i, w) ==
  IF i > Len(fields) THEN 1
  ELSE LET a == AlignOf(fields[i].type, w)
           r == MaxAlign(fields, i + 1, w)
       IN  IF a > r THEN a ELSE r

\* The layout a C compiler gives struct { fields }.
StructLayout(fields, w) ==
  LET offs == Offsets(fields, 1, 0, w)
      n    == Len(fields)
      end  == IF n = 0 THEN 0 ELSE offs[n] + FieldSize(fields[n], w)
  IN  [fields  |-> [i \in 1..n |-> fields[i].name],
       offsets |-> offs,
       sizes   |-> [i \in 1..n |-> FieldSize(fields[i], w)],
       size    |-> AlignUp(end, MaxAlign(fields, 1, w))]

RECURSIVE EnumValues(_, _, _)
\* Enumerators i.. numbered by the C rule: the initializer when there is
\* one, otherwise one more than the previous enumerator (0 for the first).
EnumValues(enumerators, i, next) ==
  IF i > Len(enumerators) THEN <<>>
  ELSE LET v == IF enumerators[i].hasInit THEN enumerators[i].init ELSE next
       IN  <<[name |-> enumerators[i].name, value |-> v]>>
           \o EnumValues(enumerators, i + 1, v + 1)

(* ----------------------------- compiling ------------------------------- *)

Active == \A i \in 1..Len(condStack) : condStack[i].active

Guards == {condStack[i].macro : i \in 1..Len(condStack)}

AtLine(kinds) == pc < EOF /\ Header[pc].kind \in kinds

Runtime == <<platform, ncalls, lastCall>>

Push(m, act) ==
  condStack' = Append(condStack, [macro |-> m, active |-> act, line |-> Header[pc].line])

Ifdef ==
  /\ AtLine({"ifdef"})
  /\ Push(Header[pc].name, Header[pc].name \in macros)
  /\ pc' = pc + 1
  /\ UNCHANGED <<wordSize, macros, decls, inNamespace, layouts, enumTable, Runtime>>

Ifndef ==
  /\ AtLine({"ifndef"})
  /\ Push(Header[pc].name, Header[pc].name \notin macros)
  /\ pc' = pc + 1
  /\ UNCHANGED <<wordSize, macros, decls, inNamespace, layouts, enumTable, Runtime>>

Else ==
  /\ AtLine({"else"})
  /\ Len(condStack) > 0
  /\ LET n == Len(condStack)
     IN  condStack' = [condStack EXCEPT ![n].active = ~condStack[n].active]
  /\ pc' = pc + 1
  /\ UNCHANGED <<wordSize, macros, decls, inNamespace, layouts, enumTable, Runtime>>

Endif ==
  /\ AtLine({"endif"})
  /\ Len(condStack) > 0
  /\ condStack' = SubSeq(condStack, 1, Len(condStack) - 1)
  /\ pc' = pc + 1
  /\ UNCHANGED <<wordSize, macros, decls, inNamespace, layouts, enumTable, Runtime>>

\* A line inside a block whose condition is false is dropped.
Skip ==
  /\ AtLine({"define", "include", "namespace_open", "namespace_close",
             "struct", "enum", "proto", "typedef"})
  /\ ~Active
  /\ pc' = pc + 1
  /\ UNCHANGED <<wordSize, macros, condStack, decls, inNamespace, layouts,
                 enumTable, Runtime>>

Define ==
  /\ AtLine({"define"})
  /\ Active
  /\ macros' = macros \cup {Header[pc].name}
  /\ pc' = pc + 1
  /\ UNCHANGED <<wordSize, condStack, decls, inNamespace, layouts, enumTable, Runtime>>

\* SwiftStdint.h supplies the fixed-width integer typedefs; it declares
\* nothing else this header's consumers see.
Include ==
  /\ AtLine({"include"})
  /\ Active
  /\ pc' = pc + 1
  /\ UNCHANGED <<wordSize, macros, condStack, decls, inNamespace, layouts,
                 enumTable, Runtime>>

Namespace ==
  /\ AtLine({"namespace_open", "namespace_close"})
  /\ Active
  /\ inNamespace' = (Header[pc].kind = "namespace_open")
  /\ pc' = pc + 1
  /\ UNCHANGED <<wordSize, macros, condStack, decls, layouts, enumTable, Runtime>>

Decl == [name |-> Header[pc].name, kind |-> Header[pc].kind,
         line |-> Header[pc].line, guards |-> Guards, ns |-> inNamespace]

DeclareStruct ==
  /\ AtLine({"struct"})
  /\ Active
  /\ decls' = decls \cup {Decl}
  /\ layouts' = layouts \cup
       {[name |-> Header[pc].name,
         layout |-> StructLayout(StructFields(Header[pc].name), wordSize)]}
  /\ pc' = pc + 1
  /\ UNCHANGED <<wordSize, macros, condStack, inNamespace, enumTable, Runtime>>

DeclareEnum ==
  /\ AtLine({"enum"})
  /\ Active
  /\ decls' = decls \cup {Decl}
  /\ enumTable' = EnumValues(KnownNSErrorKeyEnumerators, 1, 0)
  /\ pc' = pc + 1
  /\ UNCHANGED <<wordSize, macros, condStack, inNamespace, layouts, Runtime>>

DeclareProto ==
  /\ AtLine({"proto"})
  /\ Active
  /\ decls' = decls \cup {Decl}
  /\ pc' = pc + 1
  /\ UNCHANGED <<wordSize, macros, condStack, inNamespace, layouts, enumTable, Runtime>>

DeclareTypedef ==
  /\ AtLine({"typedef"})
  /\ Active
  /\ decls' = decls \cup {Decl}
  /\ pc' = pc + 1
  /\ UNCHANGED <<wordSize, macros, condStack, inNamespace, layouts, enumTable, Runtime>>

(* ------------------- the platform side of the boundary ----------------- *)

\* Foundation's structs, as the specification describes them.
NSRangeFields ==
  << F("location", "NSUInteger", 1), F("length", "NSUInteger", 1) >>

NSOperatingSystemVersionFields ==
  << F("majorVersion", "NSInteger", 1),
     F("minorVersion", "NSInteger", 1),
     F("patchVersion", "NSInteger", 1) >>

NSFastEnumerationStateFields ==
  << F("state", "unsigned long", 1),
     F("itemsPtr", "pointer", 1),
     F("mutationsPtr", "pointer", 1),
     F("extra", "unsigned long", 5) >>

PlatformFields(name) ==
  CASE name = "_SwiftNSRange" -> NSRangeFields
    [] name = "_SwiftNSFastEnumerationState" -> NSFastEnumerationStateFields
    [] name = "_SwiftNSOperatingSystemVersion" -> NSOperatingSystemVersionFields

\* What a read of bytes nobody wrote yields.
GARBAGE == 0 - 1

\* The bytes of a platform struct value, by offset of each field's first byte.
Store(fields, value, w) ==
  LET lay == StructLayout(fields, w)
  IN  [o \in {lay.offsets[i] : i \in 1..Len(fields)} |->
         value[(CHOOSE i \in 1..Len(fields) : lay.offsets[i] = o)]]

\* Those bytes read back through a mirror struct: one value per mirror field.
Load(mem, fields, w) ==
  LET lay == StructLayout(fields, w)
  IN  [i \in 1..Len(fields) |->
         IF lay.offsets[i] \in DOMAIN mem THEN mem[lay.offsets[i]] ELSE GARBAGE]

\* _swift_stdlib_operatingSystemVersion: the process's current version,
\* handed over in the mirror's shape.  `history` is the number of calls made
\* to the entry points before this one.
operatingSystemVersionImpl(version, w, history) ==
  LET names == [i \in 1..Len(NSOperatingSystemVersionFields) |->
                  NSOperatingSystemVersionFields[i].name]
      mem   == Store(NSOperatingSystemVersionFields,
                     [i \in 1..Len(names) |-> version[names[i]]], w)
  IN  Load(mem, OperatingSystemVersionFields, w)

\* Mutant: no case for the recovery attempter.
nserrorKeyImpl_MissingCase(tag, history) ==
  CASE tag = "_SwiftKnownNSErrorKeyLocalizedDescription" -> "NSLocalizedDescriptionKey"
    [] tag = "_SwiftKnownNSErrorKeyLocalizedFailureReason" ->
         "NSLocalizedFailureReasonErrorKey"
    [] tag = "_SwiftKnownNSErrorKeyLocalizedRecoverySuggestion" ->
         "NSLocalizedRecoverySuggestionErrorKey"
    [] tag = "_SwiftKnownNSErrorKeyHelpAnchor" -> "NSHelpAnchorErrorKey"
    [] tag = "_SwiftKnownNSErrorKeyLocalizedRecoveryOptions" ->
         "NSLocalizedRecoveryOptionsErrorKey"
    [] OTHER -> NULL

\* _swift_stdlib_nserror_key: Foundation's user-info key for a known key.
nserrorKeyImpl(tag, history) ==
  CASE tag = "_SwiftKnownNSErrorKeyLocalizedDescription" -> "NSLocalizedDescriptionKey"
    [] tag = "_SwiftKnownNSErrorKeyLocalizedFailureReason" ->
         "NSLocalizedFailureReasonErrorKey"
    [] tag = "_SwiftKnownNSErrorKeyLocalizedRecoverySuggestion" ->
         "NSLocalizedRecoverySuggestionErrorKey"
    [] tag = "_SwiftKnownNSErrorKeyHelpAnchor" -> "NSHelpAnchorErrorKey"
    [] tag = "_SwiftKnownNSErrorKeyLocalizedRecoveryOptions" ->
         "NSLocalizedRecoveryOptionsErrorKey"
    [] tag = "_SwiftKnownNSErrorKeyRecoveryAttempter" -> "NSRecoveryAttempterErrorKey"

\* Mutant: only the first call is dispatched at once, later ones are queued.
performErrorRecoverySelectorImpl_Queued(args, history) ==
  IF args[1] = NULL \/ history > 0 THEN <<>> ELSE <<args>>

\* _swift_stdlib_perform_error_recovery_selector: the messages sent to the
\* delegate; a message to a nil delegate is sent to nobody.
performErrorRecoverySelectorImpl(args, history) ==
  IF args[1] = NULL THEN <<>> ELSE <<args>>

(* ------------------------------ calling -------------------------------- *)

Declared(name) == \E d \in decls : d.name = name /\ d.kind = "proto"

ValidKeys == {enumTable[i].value : i \in 1..Len(enumTable)}

TagOf(key) == enumTable[CHOOSE i \in 1..Len(enumTable) : enumTable[i].value = key].name

\* Parameters declared _Nonnull that a call passes NULL for.
NullViolations(proto, args) ==
  {i \in 1..Len(proto.params) :
     proto.params[i].nullability = "_Nonnull" /\ args[i] = NULL}

CanCall(name) == pc = EOF /\ Declared(name) /\ ncalls < MaxCalls

Record(t, op, args, ret, version, fault, delivered) ==
  /\ lastCall' = [lastCall EXCEPT ![t] =
       [op |-> op, args |-> args, ret |-> ret, version |-> version,
        fault |-> fault, delivered |-> delivered, seq |-> ncalls + 1]]
  /\ ncalls' = ncalls + 1
  /\ UNCHANGED <<wordSize, macros, pc, condStack, decls, inNamespace, layouts,
                 enumTable, platform>>

CallOperatingSystemVersion(t) ==
  /\ CanCall("_swift_stdlib_operatingSystemVersion")
  /\ Record(t, "operatingSystemVersion", <<>>, "struct",
            operatingSystemVersionImpl(platform, wordSize, ncalls), FALSE, <<>>)

\* A key that is no enumerator is undefined behaviour: any reference, or
\* none, may come back.
CallNSErrorKey(t, key) ==
  /\ CanCall("_swift_stdlib_nserror_key")
  /\ \E r \in IF key \in ValidKeys
              THEN {nserrorKeyImpl(TagOf(key), ncalls)}
              ELSE {NULL, "NSLocalizedDescriptionKey"} :
       Record(t, "nserrorKey", <<key>>, r, <<>>, FALSE, <<>>)

\* NULL for a _Nonnull parameter is undefined behaviour: the call may fault.
CallPerformErrorRecoverySelector(t, delegate, selector, success, contextInfo) ==
  LET proto == Proto("_swift_stdlib_perform_error_recovery_selector")
      args  == <<delegate, selector, success, contextInfo>>
  IN  /\ CanCall("_swift_stdlib_perform_error_recovery_selector")
      /\ IF NullViolations(proto, args) = {}
         THEN Record(t, "performErrorRecoverySelector", args, proto.ret.type, <<>>,
                     FALSE, performErrorRecoverySelectorImpl(args, ncalls))
         ELSE \E f \in BOOLEAN :
                Record(t, "performErrorRecoverySelector", args, proto.ret.type, <<>>,
                       f, <<>>)

Idle == [op |-> "none", args |-> <<>>, ret |-> VOID, version |-> <<>>,
         fault |-> FALSE, delivered |-> <<>>, seq |-> 0]

Init ==
  /\ wordSize \in WordSizes
  /\ macros \in SUBSET ConfigMacros
  /\ pc = 1
  /\ condStack = <<>>
  /\ decls = {}
  /\ inNamespace = FALSE
  /\ layouts = {}
  /\ enumTable = <<>>
  /\ platform \in PlatformVersions
  /\ ncalls = 0
  /\ lastCall = [t \in Threads |-> Idle]

Next ==
  \/ Ifdef \/ Ifndef \/ Else \/ Endif \/ Skip \/ Define \/ Include
  \/ Namespace \/ DeclareStruct \/ DeclareEnum \/ DeclareProto \/ DeclareTypedef
  \/ \E t \in Threads : CallOperatingSystemVersion(t)
  \/ \E t \in Threads, key \in KeyInputs : CallNSErrorKey(t, key)
  \/ \E t \in Threads, d \in Objects, s \in Selectors, b \in BOOLEAN, c \in Contexts :
       CallPerformErrorRecoverySelector(t, d, s, b, c)

Spec == Init /\ [][Next]_vars

(* ------------------------------- claims -------------------------------- *)

LayoutOf(name) == (CHOOSE l \in layouts : l.name = name).layout

LaidOut(name) == \E l \in layouts : l.name = name

\* C1: once the enumeration is declared, _SwiftKnownNSErrorKey has exactly
\* six enumerators, in the order LocalizedDescription, LocalizedFailureReason,
\* LocalizedRecoverySuggestion, HelpAnchor, LocalizedRecoveryOptions,
\* RecoveryAttempter, with the values 0, 1, 2, 3, 4, 5: no value is shared
\* and none is skipped.
C1_KnownKeyOrdinals ==
  enumTable # <<>> =>
    /\ [i \in 1..Len(enumTable) |-> enumTable[i].name] =
         << "_SwiftKnownNSErrorKeyLocalizedDescription",
            "_SwiftKnownNSErrorKeyLocalizedFailureReason",
            "_SwiftKnownNSErrorKeyLocalizedRecoverySuggestion",
            "_SwiftKnownNSErrorKeyHelpAnchor",
            "_SwiftKnownNSErrorKeyLocalizedRecoveryOptions",
            "_SwiftKnownNSErrorKeyRecoveryAttempter" >>
    /\ [i \in 1..Len(enumTable) |-> enumTable[i].value] = <<0, 1, 2, 3, 4, 5>>
    /\ \A i, j \in 1..Len(enumTable) :
         enumTable[i].value = enumTable[j].value => i = j

C1_Witness ==
  /\ \E d \in decls : d.name = "_SwiftKnownNSErrorKey" /\ d.kind = "enum"
  /\ Len(enumTable) = 6
  /\ enumTable[6].value = 5

\* C2: on a target with word size W, _SwiftNSRange has the two fields
\* location (offset 0, W bytes) and length (offset W, W bytes), is 2*W bytes
\* with no padding, and has the layout of the platform's range struct.
C2_RangeLayout ==
  LaidOut("_SwiftNSRange") =>
    LET l == LayoutOf("_SwiftNSRange")
    IN  /\ l.fields = <<"location", "length">>
        /\ l.offsets = <<0, wordSize>>
        /\ l.sizes = <<wordSize, wordSize>>
        /\ l.size = 2 * wordSize
        /\ l = StructLayout(PlatformFields("_SwiftNSRange"), wordSize)

C2_Witness == LaidOut("_SwiftNSRange") /\ wordSize = 8

\* C3: on a target with word size W, _SwiftNSOperatingSystemVersion has the
\* three W-byte fields majorVersion (offset 0), minorVersion (offset W) and
\* patchVersion (offset 2*W), is 3*W bytes, and has the layout of the
\* platform's operating-system-version struct.
C3_OperatingSystemVersionLayout ==
  LaidOut("_SwiftNSOperatingSystemVersion") =>
    LET l == LayoutOf("_SwiftNSOperatingSystemVersion")
    IN  /\ l.fields = <<"majorVersion", "minorVersion", "patchVersion">>
        /\ l.offsets = <<0, wordSize, 2 * wordSize>>
        /\ l.sizes = <<wordSize, wordSize, wordSize>>
        /\ l.size = 3 * wordSize
        /\ l = StructLayout(PlatformFields("_SwiftNSOperatingSystemVersion"), wordSize)

C3_Witness == LaidOut("_SwiftNSOperatingSystemVersion") /\ wordSize = 8 /\ pc = EOF

\* C4: where it is compiled, on a target with word size W,
\* _SwiftNSFastEnumerationState has the fields state (offset 0, W bytes),
\* itemsPtr (offset W, W bytes), mutationsPtr (offset 2*W, W bytes) and extra
\* (offset 3*W, 5*W bytes), is 8*W bytes, and has the layout of the platform's
\* fast-enumeration-state struct.
C4_FastEnumerationStateLayout ==
  LaidOut("_SwiftNSFastEnumerationState") =>
    LET l == LayoutOf("_SwiftNSFastEnumerationState")
    IN  /\ l.fields = <<"state", "itemsPtr", "mutationsPtr", "extra">>
        /\ l.offsets = <<0, wordSize, 2 * wordSize, 3 * wordSize>>
        /\ l.sizes = <<wordSize, wordSize, wordSize, 5 * wordSize>>
        /\ l.size = 8 * wordSize
        /\ l = StructLayout(PlatformFields("_SwiftNSFastEnumerationState"), wordSize)

C4_Witness ==
  /\ LaidOut("_SwiftNSFastEnumerationState")
  /\ "__OBJC2__" \in macros
  /\ wordSize = 4

CalledBy(t, op) == lastCall[t].op = op

\* C5: a call of _swift_stdlib_nserror_key with any of the six enumerators
\* returns a non-null reference.
C5_NSErrorKeyNonNull ==
  \A t \in Threads :
    (CalledBy(t, "nserrorKey") /\ lastCall[t].args[1] \in ValidKeys) =>
      /\ lastCall[t].ret # NULL
      /\ ~lastCall[t].fault

C5_Witness ==
  /\ Cardinality(ValidKeys) = 6
  /\ CalledBy("t1", "nserrorKey") /\ lastCall["t1"].args[1] = 5
  /\ CalledBy("t2", "nserrorKey") /\ lastCall["t2"].args[1] = 0
  /\ lastCall["t1"].ret # NULL /\ lastCall["t2"].ret # NULL

\* C6: a call of _swift_stdlib_perform_error_recovery_selector whose selector
\* is not null completes without a fault and returns nothing, whatever the
\* delegate, the success flag and contextInfo are, null included; selector is
\* the only parameter declared non-null.
C6_PerformAcceptsNull ==
  /\ \A t \in Threads :
       (CalledBy(t, "performErrorRecoverySelector") /\ lastCall[t].args[2] # NULL) =>
         /\ ~lastCall[t].fault
         /\ lastCall[t].ret = VOID
  /\ Declared("_swift_stdlib_perform_error_recovery_selector") =>
       LET ps == Proto("_swift_stdlib_perform_error_recovery_selector").params
       IN  {ps[i].name : i \in {j \in 1..Len(ps) : ps[j].nullability = "_Nonnull"}}
             = {"selector"}

C6_Witness ==
  /\ CalledBy("t1", "performErrorRecoverySelector")
  /\ lastCall["t1"].args[1] = NULL
  /\ lastCall["t1"].args[2] # NULL
  /\ lastCall["t1"].args[4] = NULL
  /\ ~lastCall["t1"].fault
  /\ CalledBy("t2", "performErrorRecoverySelector")
  /\ lastCall["t2"].args[1] # NULL
  /\ lastCall["t2"].args[4] # NULL
  /\ ~lastCall["t2"].fault

MirrorTypes == {d.name : d \in {x \in decls : x.kind \in {"struct", "enum"}}}

EntryPoints == {d.name : d \in {x \in decls : x.kind = "proto"}}

\* C7 as stated: the compiled header declares the four mirror types and four
\* entry-point prototypes.
C7_FourTypesFourPrototypes ==
  pc = EOF =>
    /\ MirrorTypes = {"_SwiftNSRange", "_SwiftNSFastEnumerationState",
                      "_SwiftNSOperatingSystemVersion", "_SwiftKnownNSErrorKey"}
    /\ Cardinality(EntryPoints) = 4

\* C7, amended: the compiled header declares the range mirror, the
\* OS-version mirror and the known-error-key enumeration, the
\* enumeration-state mirror as a fourth where __OBJC2__ is defined, and three
\* entry-point prototypes.
C7_TypesAndThreePrototypes ==
  pc = EOF =>
    /\ MirrorTypes =
         {"_SwiftNSRange", "_SwiftNSOperatingSystemVersion", "_SwiftKnownNSErrorKey"}
           \cup (IF "__OBJC2__" \in macros
                 THEN {"_SwiftNSFastEnumerationState"} ELSE {})
    /\ EntryPoints = {"_swift_stdlib_operatingSystemVersion",
                      "_swift_stdlib_nserror_key",
                      "_swift_stdlib_perform_error_recovery_selector"}

C7_Witness ==
  /\ pc = EOF
  /\ "__OBJC2__" \in macros
  /\ Cardinality(MirrorTypes) = 4
  /\ Cardinality(EntryPoints) = 3

FieldValue(version, name) ==
  version[CHOOSE i \in 1..Len(OperatingSystemVersionFields) :
            OperatingSystemVersionFields[i].name = name]

\* C8: a call of _swift_stdlib_operatingSystemVersion takes no argument,
\* never fails and returns the platform's current major, minor and patch
\* version; it changes neither the platform's state nor anything the caller
\* can see besides its own result, so any two calls return equal triples.
C8_OperatingSystemVersionReadsOnly ==
  /\ [](\A t \in Threads :
          CalledBy(t, "operatingSystemVersion") =>
            /\ lastCall[t].args = <<>>
            /\ ~lastCall[t].fault
            /\ Len(lastCall[t].version) = 3
            /\ FieldValue(lastCall[t].version, "majorVersion") = platform.majorVersion
            /\ FieldValue(lastCall[t].version, "minorVersion") = platform.minorVersion
            /\ FieldValue(lastCall[t].version, "patchVersion") = platform.patchVersion
            /\ \A u \in Threads :
                 CalledBy(u, "operatingSystemVersion") =>
                   lastCall[u].version = lastCall[t].version)
  /\ [][\A t \in Threads :
          (lastCall'[t].seq # lastCall[t].seq
             /\ lastCall'[t].op = "operatingSystemVersion") =>
            /\ UNCHANGED <<wordSize, macros, pc, condStack, decls, inNamespace,
                           layouts, enumTable, platform>>
            /\ lastCall'[t].delivered = <<>>
            /\ \A u \in Threads \ {t} : lastCall'[u] = lastCall[u]]_vars

C8_Witness ==
  /\ CalledBy("t1", "operatingSystemVersion")
  /\ CalledBy("t2", "operatingSystemVersion")
  /\ lastCall["t1"].version = lastCall["t2"].version
  /\ lastCall["t1"].version = <<10, 12, 0>>

\* A call whose arguments keep to the declared contract.
Defined(c) ==
  CASE c.op = "nserrorKey" -> c.args[1] \in ValidKeys
    [] c.op = "performErrorRecoverySelector" -> c.args[2] # NULL
    [] OTHER -> TRUE

Outcome(c) == <<c.ret, c.version, c.fault, c.delivered>>

IncludeGuard == "SWIFT_STDLIB_SHIMS_FOUNDATIONSHIMS_H"

\* The one declaration of `name` made at source line `line`, under the
\* include guard alone.
DeclaredAt(name, kind, line) ==
  {d \in decls : d.name = name} =
    {[name |-> name, kind |-> kind, line |-> line, guards |-> {IncludeGuard},
      ns |-> ("__cplusplus" \in macros)]}

\* C10: _SwiftNSFastEnumerationState is declared exactly when __OBJC2__ is
\* defined, and it is the only declaration inside an __OBJC2__ block; the
\* range mirror, the OS-version mirror, the known-error-key enumeration and
\* the three prototypes are declared the same way whether or not __OBJC2__
\* is defined.
C10_OnlyEnumerationStateIsConditional ==
  /\ \A d \in decls :
       ("__OBJC2__" \in d.guards) <=> (d.name = "_SwiftNSFastEnumerationState")
  /\ (\E d \in decls : d.name = "_SwiftNSFastEnumerationState") =>
       "__OBJC2__" \in macros
  /\ pc = EOF =>
       /\ "__OBJC2__" \in macros =>
            \E d \in decls : d.name = "_SwiftNSFastEnumerationState"
       /\ DeclaredAt("_SwiftNSRange", "struct", 36)
       /\ DeclaredAt("_SwiftNSOperatingSystemVersion", "struct", 51)
       /\ DeclaredAt("_SwiftKnownNSErrorKey", "enum", 64)
       /\ DeclaredAt("_swift_stdlib_operatingSystemVersion", "proto", 57)
       /\ DeclaredAt("_swift_stdlib_nserror_key", "proto", 73)
       /\ DeclaredAt("_swift_stdlib_perform_error_recovery_selector", "proto", 87)
       /\ {l.layout : l \in {x \in layouts : x.name # "_SwiftNSFastEnumerationState"}}
            = {StructLayout(RangeFields, wordSize),
               StructLayout(OperatingSystemVersionFields, wordSize)}

C10_Witness ==
  /\ pc = EOF
  /\ "__OBJC2__" \notin macros
  /\ ~LaidOut("_SwiftNSFastEnumerationState")
  /\ Cardinality(MirrorTypes) = 3

====
